---- MODULE Spec2Model ----
(***************************************************************************)
(* nannyml: the fit/estimate lifecycle of BasePerformanceEstimator, the    *)
(* defensive copy of PerformanceEstimatorResult                            *)
(* (performance_estimation/base.py) and the chunk pairing and per-feature  *)
(* test dispatch of StatisticalDriftCalculator._calculate_drift            *)
(* (drift/statistical_drift_calculator.py).                                *)
(*                                                                         *)
(* Python values: None is the empty sequence, any other optional value v   *)
(* is <<v>>.  A DataFrame is its row count and its set of column names; a  *)
(* Chunk is its key and the columns of its data.  The statistical tests    *)
(* (chi2_contingency, ks_2samp) are recorded by kind and column only.      *)
(***************************************************************************)
EXTENDS Integers, Sequences, FiniteSets, TLC

VARIABLES
    \* ---- BasePerformanceEstimator --------------------------------------
    pc,            \* "new" before __init__, "created" after it
    init_args,     \* the arguments __init__ was called with
    est,           \* the estimator's attributes
    fits,          \* number of fit calls that returned (capped at MaxFits)
    last,          \* what the last call did: its trace
    \* ---- PerformanceEstimatorResult ------------------------------------
    heap,          \* table reference -> table contents
    estimated_data,\* the caller's table reference
    result,        \* None or <<the PerformanceEstimatorResult>>
    r_op,          \* the last operation on the tables
    \* ---- StatisticalDriftCalculator ------------------------------------
    d_pc,          \* "idle", "called", "returned"
    reference_chunks,
    analysis_chunks,
    drift          \* the outcome of _calculate_drift

est_vars == <<pc, init_args, est, fits, last>>
res_vars == <<heap, estimated_data, result, r_op>>
drift_vars == <<d_pc, reference_chunks, analysis_chunks, drift>>
vars == <<pc, init_args, est, fits, last, heap, estimated_data, result, r_op,
          d_pc, reference_chunks, analysis_chunks, drift>>

---------------------------------------------------------------------------
\* Bounds of the model

\* largest row count of an input table
MaxRows == 2
\* largest number of chunks a chunker returns
MaxChunks == 2
\* fit calls counted up to this number
MaxFits == 2
\* largest cell value written into a table
MaxValue == 2

---------------------------------------------------------------------------
\* Python's None and optional values
None == <<>>

Some(v) == <<v>>

\* truth value of an optional int: None and 0 are falsy
TruthyInt(x) == x # None /\ x[1] # 0

\* truth value of an optional str: None and '' are falsy
TruthyStr(x) == x # None /\ x[1] # ""

\* truth value of an optional list: None and [] are falsy
TruthyList(x) == x # None /\ x[1] # <<>>

Range(s) == {s[i] : i \in 1..Len(s)}

---------------------------------------------------------------------------
\* nannyml.metadata

NML_METADATA_PARTITION_COLUMN_NAME == "nml_meta_partition"

NML_METADATA_PREDICTION_COLUMN_NAME == "nml_meta_prediction"

NML_METADATA_TARGET_COLUMN_NAME == "nml_meta_target"

NML_METADATA_COLUMNS ==
    << NML_METADATA_PARTITION_COLUMN_NAME,
       NML_METADATA_PREDICTION_COLUMN_NAME,
       NML_METADATA_TARGET_COLUMN_NAME >>

\* the metadata of the monitored model: one categorical, one continuous feature
ModelMetadata ==
    [ categorical_features |-> <<"region">>,
      continuous_features  |-> <<"score">>,
      features             |-> <<"region", "score">> ]

\* columns of a raw input table
RawColumns == {"region", "score", "partition", "y_pred", "other"}

DataFrames == [rows : 0..MaxRows, columns : {{}, RawColumns}]

\* DataFrame.empty: some axis has length 0
empty(df) == df.rows = 0 \/ df.columns = {}

\* nannyml.preprocessing.preprocess: adds the fixed metadata columns
preprocess(data, model_metadata) ==
    [rows |-> data.rows, columns |-> data.columns \cup Range(NML_METADATA_COLUMNS)]

---------------------------------------------------------------------------
\* nannyml.chunk

SizeBasedChunker(chunk_size) ==
    [kind |-> "SizeBasedChunker", chunk_size |-> Some(chunk_size),
     chunk_count |-> None, offset |-> None, instance |-> 0]

CountBasedChunker(chunk_count) ==
    [kind |-> "CountBasedChunker", chunk_size |-> None,
     chunk_count |-> Some(chunk_count), offset |-> None, instance |-> 0]

PeriodBasedChunker(offset) ==
    [kind |-> "PeriodBasedChunker", chunk_size |-> None,
     chunk_count |-> None, offset |-> Some(offset), instance |-> 0]

DefaultChunker ==
    [kind |-> "DefaultChunker", chunk_size |-> None,
     chunk_count |-> None, offset |-> None, instance |-> 0]

\* a Chunker instance built by the caller
CallerChunker(i) ==
    [kind |-> "Chunker", chunk_size |-> None,
     chunk_count |-> None, offset |-> None, instance |-> i]

\* Chunker.split(data, columns=...): n chunks, keyed by position, each
\* holding the requested columns of data
split(chunker, data, columns, n) ==
    [i \in 1..n |-> [key |-> i, columns |-> data.columns \cap Range(columns)]]

\* the outcome of _calculate_drift before it has run
NoOutcome == [raised |-> None, res |-> None, tests |-> <<>>]

---------------------------------------------------------------------------
\* BasePerformanceEstimator

\* the attributes before __init__ has run
NoEstimator ==
    [model_metadata |-> None, selected_features |-> None,
     chunker |-> None, baseline |-> None]

\* the trace of a call: what was given, what was invoked with what, and how
\* the call ended
NoCall ==
    [op |-> "none", data |-> None, raised |-> None, calls |-> <<>>,
     fit_data |-> None, split_data |-> None, split_columns |-> None,
     split_result |-> None, estimate_chunks |-> None, returned |-> None]

\* no arguments yet
NoArgs ==
    [features |-> None, chunk_size |-> None, chunk_number |-> None,
     chunk_period |-> None, chunker |-> None]

\* PerformanceEstimator.__init__: the selected features
select_features(model_metadata, features) ==
    IF ~TruthyList(features) THEN model_metadata.features ELSE features[1]

\* a chunker resolution that lets chunk_size override an explicit chunker
resolve_chunker_size_first(chunk_size, chunk_number, chunk_period, chunker) ==
    IF TruthyInt(chunk_size) THEN SizeBasedChunker(chunk_size[1])
    ELSE IF chunker # None THEN chunker[1]
    ELSE IF TruthyInt(chunk_number) THEN CountBasedChunker(chunk_number[1])
    ELSE IF TruthyStr(chunk_period) THEN PeriodBasedChunker(chunk_period[1])
    ELSE DefaultChunker

\* BasePerformanceEstimator.__init__: the chunker
resolve_chunker(chunk_size, chunk_number, chunk_period, chunker) ==
    IF chunker = None
    THEN IF TruthyInt(chunk_size) THEN SizeBasedChunker(chunk_size[1])
         ELSE IF TruthyInt(chunk_number) THEN CountBasedChunker(chunk_number[1])
         ELSE IF TruthyStr(chunk_period) THEN PeriodBasedChunker(chunk_period[1])
         ELSE DefaultChunker
    ELSE chunker[1]

\* the values a caller passes to __init__
FeatureArgs == {None, Some(<<>>), Some(<<"score">>)}

ChunkSizeArgs == {None, Some(0), Some(100)}

ChunkNumberArgs == {None, Some(0), Some(10)}

ChunkPeriodArgs == {None, Some(""), Some("W")}

ChunkerArgs == {None, Some(CallerChunker(1)), Some(CallerChunker(2))}

__init__(model_metadata, features, chunk_size, chunk_number, chunk_period, chunker) ==
    /\ pc = "new"
    /\ pc' = "created"
    /\ init_args' = [features |-> features, chunk_size |-> chunk_size,
                     chunk_number |-> chunk_number, chunk_period |-> chunk_period,
                     chunker |-> chunker]
    /\ est' = [model_metadata |-> Some(model_metadata),
               selected_features |-> Some(select_features(model_metadata, features)),
               chunker |-> Some(resolve_chunker(chunk_size, chunk_number,
                                                chunk_period, chunker)),
               baseline |-> None]
    /\ last' = [NoCall EXCEPT !.op = "__init__"]
    /\ UNCHANGED <<fits, res_vars, drift_vars>>

\* the _fit hook of a concrete estimator: establishes the baseline
_fit(self, reference_data) ==
    [self EXCEPT !.baseline = Some(reference_data)]

\* the _estimate hook of a concrete estimator: one result row per chunk
_estimate(self, chunks) ==
    [data |-> [i \in 1..Len(chunks) |-> chunks[i].key],
     metadata |-> self.model_metadata[1]]

\* a fit that preprocesses and fits without looking at the table first
fit_unchecked(reference_data) ==
    /\ pc = "created"
    /\ LET preprocessed == preprocess(reference_data, est.model_metadata[1])
       IN  /\ est' = _fit(est, preprocessed)
           /\ fits' = IF fits < MaxFits THEN fits + 1 ELSE fits
           /\ last' = [NoCall EXCEPT !.op = "fit", !.data = Some(reference_data),
                              !.calls = <<"preprocess", "_fit">>,
                              !.fit_data = Some(preprocessed)]
    /\ UNCHANGED <<pc, init_args, res_vars, drift_vars>>

fit(reference_data) ==
    /\ pc = "created"
    /\ IF empty(reference_data)
       THEN /\ last' = [NoCall EXCEPT !.op = "fit", !.data = Some(reference_data),
                               !.raised = Some("InvalidArgumentsException")]
            /\ UNCHANGED <<est, fits>>
       ELSE LET preprocessed == preprocess(reference_data, est.model_metadata[1])
            IN  /\ est' = _fit(est, preprocessed)
                /\ fits' = IF fits < MaxFits THEN fits + 1 ELSE fits
                /\ last' = [NoCall EXCEPT !.op = "fit", !.data = Some(reference_data),
                                   !.calls = <<"preprocess", "_fit">>,
                                   !.fit_data = Some(preprocessed)]
    /\ UNCHANGED <<pc, init_args, res_vars, drift_vars>>

\* a column selection that forgets the metadata columns
features_only(self) == self.selected_features[1]

\* estimate: the columns handed to Chunker.split
features_and_metadata(self) == NML_METADATA_COLUMNS \o self.selected_features[1]

estimate(data) ==
    /\ pc = "created"
    /\ IF empty(data)
       THEN /\ last' = [NoCall EXCEPT !.op = "estimate", !.data = Some(data),
                               !.raised = Some("InvalidArgumentsException")]
       ELSE LET preprocessed == preprocess(data, est.model_metadata[1])
                columns == features_and_metadata(est)
            IN  IF est.chunker = None
                THEN last' = [NoCall EXCEPT !.op = "estimate", !.data = Some(data),
                                     !.calls = <<"preprocess">>,
                                     !.raised = Some("NotFittedException")]
                ELSE \E n \in 1..MaxChunks :
                       LET chunks == split(est.chunker[1], preprocessed, columns, n)
                       IN  last' = [NoCall EXCEPT
                                      !.op = "estimate", !.data = Some(data),
                                      !.calls = <<"preprocess", "split", "_estimate">>,
                                      !.split_data = Some(preprocessed),
                                      !.split_columns = Some(columns),
                                      !.split_result = Some(chunks),
                                      !.estimate_chunks = Some(chunks),
                                      !.returned = Some(_estimate(est, chunks))]
    /\ UNCHANGED <<pc, init_args, est, fits, res_vars, drift_vars>>

InitEstimator ==
    /\ pc = "new"
    /\ init_args = NoArgs
    /\ est = NoEstimator
    /\ fits = 0
    /\ last = NoCall
    /\ heap = <<>>
    /\ estimated_data = 0
    /\ result = None
    /\ r_op = "none"
    /\ d_pc = "idle"
    /\ reference_chunks = <<>>
    /\ analysis_chunks = <<>>
    /\ drift = NoOutcome

NextEstimator ==
    \/ \E features \in FeatureArgs, chunk_size \in ChunkSizeArgs,
          chunk_number \in ChunkNumberArgs, chunk_period \in ChunkPeriodArgs,
          chunker \in ChunkerArgs :
            __init__(ModelMetadata, features, chunk_size, chunk_number,
                     chunk_period, chunker)
    \/ \E reference_data \in DataFrames : fit(reference_data)
    \/ \E data \in DataFrames : estimate(data)

---------------------------------------------------------------------------
\* Properties of the estimator's lifecycle

\* the sizing parameters of __init__ that are not None
GivenSizing ==
    {p \in {"chunk_size", "chunk_number", "chunk_period"} : init_args[p] # None}

\* C1: estimate with non-empty data before any fit raises NotFittedException
\* and never reaches the _estimate hook, however the estimator was built.
C1_EstimateBeforeFitRaises ==
    (last.op = "estimate" /\ ~empty(last.data[1]) /\ fits = 0)
        => /\ last.raised = Some("NotFittedException")
           /\ "_estimate" \notin Range(last.calls)

\* C5: fit or estimate with an empty table raises InvalidArgumentsException
\* before preprocess, split or a hook is invoked, in every lifecycle state,
\* and leaves the estimator's attributes unchanged.
C5_EmptyTableRejected ==
    [][ (last'.op \in {"fit", "estimate"} /\ empty(last'.data[1]))
            => /\ last'.raised = Some("InvalidArgumentsException")
               /\ last'.calls = <<>>
               /\ last'.returned = None
               /\ est' = est
               /\ fits' = fits ]_vars

\* an empty table was rejected by fit after a baseline had been established
C5_Witness ==
    /\ last.op = "fit"
    /\ empty(last.data[1])
    /\ last.raised = Some("InvalidArgumentsException")
    /\ fits >= 1
    /\ est.baseline # None

\* C6: __init__ with more than one of chunk_size, chunk_number, chunk_period
\* and no explicit chunker raises InvalidConfiguration and builds no estimator.
C6_ConflictingSizingRejected ==
    (last.op = "__init__" /\ init_args.chunker = None /\ Cardinality(GivenSizing) > 1)
        => /\ last.raised = Some("InvalidConfiguration")
           /\ est.chunker = None

\* a value of the chunking configuration surface: a positive size or count,
\* a non-empty period
ValidSizing(p) ==
    IF p = "chunk_period" THEN init_args[p][1] # "" ELSE init_args[p][1] > 0

C8_Lifecycle ==
    [][ /\ (fits >= 1 /\ last'.op = "estimate" /\ ~empty(last'.data[1]))
            => /\ last'.raised = None
               /\ last'.calls = <<"preprocess", "split", "_estimate">>
               /\ last'.split_data # None
               /\ last'.split_data[1].rows = last'.data[1].rows
               /\ Range(NML_METADATA_COLUMNS) \subseteq last'.split_data[1].columns
               /\ Range(last'.split_columns[1]) =
                      Range(NML_METADATA_COLUMNS) \cup Range(est.selected_features[1])
               /\ last'.split_result # None
               /\ last'.estimate_chunks = last'.split_result
               /\ last'.returned # None
               /\ est' = est
               /\ fits' = fits
        /\ (fits >= 1 /\ last'.op = "fit" /\ ~empty(last'.data[1]))
            => /\ last'.raised = None
               /\ last'.calls = <<"preprocess", "_fit">>
               /\ est'.baseline = last'.fit_data
               /\ last'.fit_data[1].rows = last'.data[1].rows
               /\ est' = [est EXCEPT !.baseline = est'.baseline] ]_vars

\* after a second fit, an estimate returned a result for two chunks
C8_Witness ==
    /\ fits >= 2
    /\ last.op = "estimate"
    /\ last.returned # None
    /\ Len(last.estimate_chunks[1]) = 2
    /\ est.baseline # None

\* the estimator's lifecycle: __init__, then fit and estimate in any order
SpecEstimator == InitEstimator /\ [][NextEstimator]_vars

---------------------------------------------------------------------------
\* PerformanceEstimatorResult

\* the contents of an estimated-data table: one metric value per row
NewTable == [row \in 1..MaxRows |-> 0]

\* a copy that hands back the reference it was given
copy_alias(h, ref) == [heap |-> h, ref |-> ref]

\* DataFrame.copy(deep=True): a new table holding the same values
copy_deep(h, ref) == [heap |-> Append(h, h[ref]), ref |-> Len(h) + 1]

PerformanceEstimatorResult__init__(data_ref, model_metadata) ==
    /\ result = None
    /\ LET copied == copy_deep(heap, data_ref)
       IN  /\ heap' = copied.heap
           /\ result' = Some([data |-> copied.ref, metadata |-> model_metadata])
    /\ r_op' = "__init__"
    /\ UNCHANGED <<estimated_data, est_vars, drift_vars>>

\* the caller writes a value into the table it passed in
MutateInput(row, value) ==
    /\ heap' = [heap EXCEPT ![estimated_data][row] = value]
    /\ r_op' = "mutate_input"
    /\ UNCHANGED <<estimated_data, result, est_vars, drift_vars>>

\* the holder of the result writes a value into result.data
MutateResultData(row, value) ==
    /\ result # None
    /\ heap' = [heap EXCEPT ![result[1].data][row] = value]
    /\ r_op' = "mutate_result"
    /\ UNCHANGED <<estimated_data, result, est_vars, drift_vars>>

InitResult ==
    /\ heap = <<NewTable>>
    /\ estimated_data = 1
    /\ result = None
    /\ r_op = "none"
    /\ pc = "new"
    /\ init_args = NoArgs
    /\ est = NoEstimator
    /\ fits = 0
    /\ last = NoCall
    /\ d_pc = "idle"
    /\ reference_chunks = <<>>
    /\ analysis_chunks = <<>>
    /\ drift = NoOutcome

NextResult ==
    \/ PerformanceEstimatorResult__init__(estimated_data, ModelMetadata)
    \/ \E row \in 1..MaxRows, value \in 0..MaxValue : MutateInput(row, value)
    \/ \E row \in 1..MaxRows, value \in 0..MaxValue : MutateResultData(row, value)

\* C9: the result holds a deep copy of the table it was built from: it starts
\* with the table's values, a later write to the caller's table leaves
\* result.data as it was, and a write to result.data leaves the caller's
\* table as it was.
C9_ResultIsDeepCopy ==
    [][ /\ (result = None /\ result' # None)
            => heap'[result'[1].data] = heap[estimated_data]
        /\ (result # None /\ r_op' = "mutate_input")
            => heap'[result[1].data] = heap[result[1].data]
        /\ (result # None /\ r_op' = "mutate_result")
            => heap'[estimated_data] = heap[estimated_data] ]_vars

\* the caller's table was changed after construction and the result differs
\* from it
C9_Witness ==
    /\ result # None
    /\ r_op = "mutate_input"
    /\ heap[result[1].data] # heap[estimated_data]

\* a result built from a table that the caller and the holder go on writing
SpecResult == InitResult /\ [][NextResult]_vars

---------------------------------------------------------------------------
\* StatisticalDriftCalculator

\* the column sets a chunk's data may have: the features that survived the
\* column selection, next to a metadata column
ChunkColumnSets ==
    { {"region", "score", NML_METADATA_PARTITION_COLUMN_NAME},
      {"score", NML_METADATA_PARTITION_COLUMN_NAME},
      {"region", NML_METADATA_PARTITION_COLUMN_NAME},
      {NML_METADATA_PARTITION_COLUMN_NAME} }

\* the chunk lists a chunker returns: 1..MaxChunks chunks keyed by position
ChunkLists ==
    UNION { { [i \in 1..n |-> [key |-> i, columns |-> cols[i]]] :
                cols \in [1..n -> ChunkColumnSets] } : n \in 1..MaxChunks }

Max(a, b) == IF a >= b THEN a ELSE b

Min(a, b) == IF a <= b THEN a ELSE b

\* itertools.zip_longest(a, b, fillvalue=None)
zip_longest(a, b) ==
    [i \in 1..Max(Len(a), Len(b)) |->
        << IF i <= Len(a) THEN Some(a[i]) ELSE None,
           IF i <= Len(b) THEN Some(b[i]) ELSE None >>]

\* d[k] = v on a dict kept as its items in insertion order: a key already
\* present keeps its place and gets the new value
dict_set(d, k, v) ==
    IF \E i \in 1..Len(d) : d[i][1] = k
    THEN [i \in 1..Len(d) |-> IF d[i][1] = k THEN <<k, v>> ELSE d[i]]
    ELSE Append(d, <<k, v>>)

RECURSIVE dict_of(_)
\* {l1: l2 for l1, l2 in pairs}
dict_of(pairs) ==
    IF pairs = <<>> THEN <<>>
    ELSE LET n == Len(pairs)
         IN  dict_set(dict_of(SubSeq(pairs, 1, n - 1)), pairs[n][1], pairs[n][2])

_map_by_index(refs, anas) == dict_of(zip_longest(refs, anas))

\* a column selection that takes every declared name
cols_declared(ana_chunk, column_names) == Range(column_names)

\* list(set(ana_chunk.data.columns) & set(column_names))
cols_ana(ana_chunk, column_names) == ana_chunk.columns \cap Range(column_names)

\* the p-value column of a categorical feature
categorical_p_value_column(col) == col \o "_p_vaLue"

\* the p-value column of a continuous feature
continuous_p_value_column(col) == col \o "_p_value"

statistic_column(col) == col \o "_statistic"

\* the tests of one kind on the columns cols of a pair of chunks; ref_chunk
\* is None or <<chunk>>.  With more than one column the tests done before a
\* KeyError depend on the set's iteration order; none is recorded then.
run_tests(kind, cols, ref_chunk, ana_chunk) ==
    IF cols = {} THEN [raised |-> None, tests |-> {}]
    ELSE IF ref_chunk = None THEN [raised |-> Some("AttributeError"), tests |-> {}]
    ELSE IF ~(cols \subseteq ref_chunk[1].columns)
         THEN [raised |-> Some("KeyError"), tests |-> {}]
    ELSE [raised |-> None,
          tests |-> { [test |-> kind, column |-> c,
                       reference |-> ref_chunk[1].key,
                       analysis |-> ana_chunk.key] : c \in cols }]

\* the body of the loop of _calculate_drift for one item of mapped_chunks
chunk_drift(ref_chunk, ana_chunk, model_metadata) ==
    IF ana_chunk = None
    THEN [raised |-> Some("AttributeError"), tests |-> {}, row |-> None]
    ELSE
    LET ana == ana_chunk[1]
        cat_cols_ana == cols_ana(ana, model_metadata.categorical_features)
        cat == run_tests("chi2_contingency", cat_cols_ana, ref_chunk, ana)
        cont_cols_ana == cols_ana(ana, model_metadata.continuous_features)
        cont == run_tests("ks_2samp", cont_cols_ana, ref_chunk, ana)
        columns ==
            UNION { {statistic_column(c), categorical_p_value_column(c)} :
                        c \in cat_cols_ana }
            \cup UNION { {statistic_column(c), continuous_p_value_column(c)} :
                        c \in cont_cols_ana }
    IN  IF cat.raised # None
        THEN [raised |-> cat.raised, tests |-> {}, row |-> None]
        ELSE IF cont.raised # None
        THEN [raised |-> cont.raised, tests |-> cat.tests, row |-> None]
        ELSE IF columns = {}
        \* pd.DataFrame of scalar values only
        THEN [raised |-> Some("ValueError"), tests |-> {}, row |-> None]
        ELSE [raised |-> None, tests |-> cat.tests \cup cont.tests,
              row |-> Some([chunk |-> ana.key, columns |-> columns])]

RECURSIVE drift_loop(_, _, _)
\* the loop over mapped_chunks.items(): the rows appended and the tests done
\* until an item raises
drift_loop(items, model_metadata, acc) ==
    IF items = <<>> THEN acc
    ELSE LET one == chunk_drift(items[1][1], items[1][2], model_metadata)
             tests == acc.tests \o <<one.tests>>
         IN  IF one.raised # None
             THEN [raised |-> one.raised, res |-> None, tests |-> tests]
             ELSE drift_loop(Tail(items), model_metadata,
                             [raised |-> None,
                              res |-> Some(acc.res[1] \o <<one.row[1]>>),
                              tests |-> tests])

\* res.reset_index(drop=True): the rows numbered from 0
reset_index(outcome) ==
    IF outcome.raised # None THEN outcome
    ELSE [outcome EXCEPT !.res =
            Some([i \in 1..Len(outcome.res[1]) |->
                    [index |-> i - 1, chunk |-> outcome.res[1][i].chunk,
                     columns |-> outcome.res[1][i].columns]])]

_calculate_drift(model_metadata) ==
    /\ d_pc = "called"
    /\ LET mapped_chunks == _map_by_index(reference_chunks, analysis_chunks)
       IN  drift' = reset_index(drift_loop(mapped_chunks, model_metadata,
                        [raised |-> None, res |-> Some(<<>>), tests |-> <<>>]))
    /\ d_pc' = "returned"
    /\ UNCHANGED <<reference_chunks, analysis_chunks, est_vars, res_vars>>

InitDrift ==
    /\ d_pc = "called"
    /\ reference_chunks \in ChunkLists
    /\ analysis_chunks \in ChunkLists
    /\ drift = NoOutcome
    /\ pc = "new"
    /\ init_args = NoArgs
    /\ est = NoEstimator
    /\ fits = 0
    /\ last = NoCall
    /\ heap = <<>>
    /\ estimated_data = 0
    /\ result = None
    /\ r_op = "none"

NextDrift == _calculate_drift(ModelMetadata)

---------------------------------------------------------------------------
\* Properties of _calculate_drift

AllColumns == UNION ChunkColumnSets

DeclaredFeatures ==
    Range(ModelMetadata.categorical_features) \cup Range(ModelMetadata.continuous_features)

\* every chunk of both lists holds every declared feature
FullColumns ==
    /\ \A i \in 1..Len(reference_chunks) : DeclaredFeatures \subseteq reference_chunks[i].columns
    /\ \A i \in 1..Len(analysis_chunks) : DeclaredFeatures \subseteq analysis_chunks[i].columns

\* C2: with N reference and M analysis chunks, N # M, _calculate_drift reads
\* no .key or .data of an absent chunk, and what it returns holds exactly the
\* rows of the first min(N, M) positional pairs.
C2_UnpairedChunksExcluded ==
    (d_pc = "returned" /\ Len(reference_chunks) # Len(analysis_chunks))
        => /\ drift.raised # Some("AttributeError")
           /\ drift.raised = None =>
                /\ Len(drift.res[1]) = Min(Len(reference_chunks), Len(analysis_chunks))
                /\ \A i \in 1..Len(drift.res[1]) :
                       drift.res[1][i].chunk = analysis_chunks[i].key

\* C3: for non-empty chunk lists cut with the same configuration (every
\* chunk holding the declared features), the returned table has one row per
\* analysis chunk, the i-th row keyed by the i-th analysis chunk.
C3_OneRowPerAnalysisChunk ==
    (d_pc = "returned" /\ FullColumns)
        => /\ drift.raised = None
           /\ Len(drift.res[1]) = Len(analysis_chunks)
           /\ \A i \in 1..Len(analysis_chunks) :
                  drift.res[1][i].chunk = analysis_chunks[i].key

\* C4: every returned row has, for every declared feature f in its analysis
\* chunk, categorical or continuous, the columns f_statistic and f_p_value.
C4_ColumnNames ==
    (d_pc = "returned" /\ drift.raised = None)
        => \A i \in 1..Len(drift.res[1]) :
             \A f \in DeclaredFeatures \cap analysis_chunks[i].columns :
                {f \o "_statistic", f \o "_p_value"} \subseteq drift.res[1][i].columns

\* the test of kind on column c of the i-th pair of chunks
TestOf(kind, c, i) ==
    [test |-> kind, column |-> c,
     reference |-> reference_chunks[i].key, analysis |-> analysis_chunks[i].key]

\* C10: for each paired (reference, analysis) chunk a column gets a
\* chi-squared test iff it is a declared categorical feature among the
\* analysis chunk's columns, and a Kolmogorov-Smirnov test iff it is a
\* declared continuous feature among them; a declared feature absent from
\* the analysis chunk adds no column to the row, and no other column is
\* ever tested.
C10_TestDispatch ==
    d_pc = "returned" =>
        /\ \A i \in 1..Len(drift.tests) : \A t \in drift.tests[i] :
              /\ t.test \in {"chi2_contingency", "ks_2samp"}
              /\ t.reference = reference_chunks[i].key
              /\ t.analysis = analysis_chunks[i].key
              /\ t.column \in analysis_chunks[i].columns
              /\ t.test = "chi2_contingency" =>
                     t.column \in Range(ModelMetadata.categorical_features)
              /\ t.test = "ks_2samp" =>
                     t.column \in Range(ModelMetadata.continuous_features)
        /\ drift.raised = None =>
              \A i \in 1..Len(drift.res[1]) : \A c \in AllColumns :
                 /\ TestOf("chi2_contingency", c, i) \in drift.tests[i]
                       <=> (c \in Range(ModelMetadata.categorical_features)
                            /\ c \in analysis_chunks[i].columns)
                 /\ TestOf("ks_2samp", c, i) \in drift.tests[i]
                       <=> (c \in Range(ModelMetadata.continuous_features)
                            /\ c \in analysis_chunks[i].columns)
                 /\ c \notin DeclaredFeatures \cap analysis_chunks[i].columns =>
                       {c \o "_statistic", c \o "_p_value", c \o "_p_vaLue"}
                           \cap drift.res[1][i].columns = {}

\* two rows were returned, the second for an analysis chunk without the
\* categorical feature: it got the Kolmogorov-Smirnov test only
C10_Witness ==
    /\ d_pc = "returned"
    /\ drift.raised = None
    /\ Len(drift.res[1]) = 2
    /\ "region" \in analysis_chunks[1].columns
    /\ "region" \notin analysis_chunks[2].columns
    /\ "region" \in reference_chunks[2].columns
    /\ drift.tests[2] = {TestOf("ks_2samp", "score", 2)}
    /\ drift.res[1][2].columns = {"score_statistic", "score_p_value"}

\* _calculate_drift on every pair of chunk lists
SpecDrift == InitDrift /\ [][NextDrift]_vars

====
